---- MODULE Spec2Model ----
(***************************************************************************)
(* Model of timer.py: the stopwatch's run loop (timer), its duration       *)
(* helpers (TimeInfo.from_timedelta, TimeInfo.from_timestr,                *)
(* timedelta_from_timestr) and the command-line entry (main).              *)
(*                                                                         *)
(* A datetime.timedelta is the record [days, seconds, microseconds] that   *)
(* CPython keeps, normalised to 0 <= seconds < 86400 and                   *)
(* 0 <= microseconds < 1000000; a datetime.datetime is modelled by the     *)
(* timedelta since an epoch.  update_interval and suspend_margin are whole *)
(* numbers of microseconds.  A text is a sequence of one-character         *)
(* strings.  An optional argument is a set: {} for None, {v} for v.        *)
(***************************************************************************)
EXTENDS Integers, Sequences, FiniteSets, TLC

VARIABLES
    args,        \* the arguments timer() was called with
    pc,          \* position of the control in timer()
    update_interval, suspend_margin,      \* timer()'s locals of these names
    likely_suspended_timedelta,
    elapsed, start, end, interval,
    checkpoints, \* history: every value `start` has taken
    kinds,       \* history: the classification of each completed tick
    events,      \* history: sleep / tick / display / interrupt / final
    shown,       \* history: the TimeInfo handed to each print of the time
    result,      \* what timer() returned ({} until it returns)
    origin,      \* how the --initial-time text was produced
    timestr,     \* the --initial-time text
    mainpc,      \* position of the control in main()
    parsed       \* outcome of TimeInfo.from_timestr(timestr)

timerVars == <<args, pc, update_interval, suspend_margin,
               likely_suspended_timedelta, elapsed, start, end, interval,
               checkpoints, kinds, events, shown, result>>
parseVars == <<origin, timestr, mainpc, parsed>>
vars == <<args, pc, update_interval, suspend_margin,
          likely_suspended_timedelta, elapsed, start, end, interval,
          checkpoints, kinds, events, shown, result,
          origin, timestr, mainpc, parsed>>

\* ------------------------------------------------------------------ bounds

\* loop iterations a run may start
MaxTicks == 2
\* the clock reads ClockBase + k * ClockStep for k in 0..MaxClock
MaxClock == 3
\* longest free-form body of an --initial-time text
MaxLen == 4

\* ------------------------------------------------------- datetime.timedelta

None == {}
Some(v) == {v}
Get(o) == CHOOSE v \in o : TRUE

\* timedelta(days=, seconds=, microseconds=): carries into the next field
Timedelta(d, s, us) ==
    LET s1 == s + (us \div 1000000)
    IN  [days |-> d + (s1 \div 86400),
         seconds |-> s1 % 86400,
         microseconds |-> us % 1000000]

TdZero == Timedelta(0, 0, 0)

TdAdd(a, b) ==
    Timedelta(a.days + b.days, a.seconds + b.seconds,
              a.microseconds + b.microseconds)

TdSub(a, b) ==
    Timedelta(a.days - b.days, a.seconds - b.seconds,
              a.microseconds - b.microseconds)

\* timedelta.__gt__: the (days, seconds, microseconds) tuples compared
TdGt(a, b) ==
    \/ a.days > b.days
    \/ a.days = b.days /\ a.seconds > b.seconds
    \/ a.days = b.days /\ a.seconds = b.seconds
                       /\ a.microseconds > b.microseconds

\* ---------------------------------------------------------------- constants

\* 0.01 s, in microseconds
DEFAULT_UPDATE_INTERVAL == 10000

\* -------------------------------------------------------------------- clock

\* The readings datetime.datetime.now() may give: a wall clock, which may
\* stand still or step backwards between two readings.  The base lies 20 ms
\* before a midnight so that readings carry into seconds and days.
ClockBase == [days |-> 19000, seconds |-> 86399, microseconds |-> 980000]
ClockStep == DEFAULT_UPDATE_INTERVAL
ClockAt(k) == TdAdd(ClockBase, Timedelta(0, 0, k * ClockStep))
Now == {ClockAt(k) : k \in 0..MaxClock}

\* ----------------------------------------------------------------- TimeInfo

from_timedelta(td) ==
    LET minutes0 == td.seconds \div 60
        seconds == td.seconds % 60
        hours == minutes0 \div 60
        minutes == minutes0 % 60
    IN  [days |-> td.days, hours |-> hours, minutes |-> minutes,
         seconds |-> seconds, microseconds |-> td.microseconds]

\* -------------------------------------------------------------------- timer

InitialTimes == {None,
                 Some(Timedelta(0, 10, 0)),
                 Some(Timedelta(0, 86399, 990000))}
UpdateIntervals == {None, Some(DEFAULT_UPDATE_INTERVAL \div 2)}
SuspendMargins == {None, Some(0), Some(DEFAULT_UPDATE_INTERVAL),
                   Some(0 - DEFAULT_UPDATE_INTERVAL)}

TimerArgs == [initial_time : InitialTimes,
              update_interval : UpdateIntervals,
              suspend_margin : SuspendMargins,
              final_only : BOOLEAN]

\* the state in which timer() has not been entered
NotCalled ==
    /\ pc = "not_called"
    /\ args = [initial_time |-> None, update_interval |-> None,
               suspend_margin |-> None, final_only |-> FALSE]
    /\ update_interval = 0
    /\ suspend_margin = 0
    /\ likely_suspended_timedelta = TdZero
    /\ elapsed = TdZero
    /\ start = TdZero
    /\ end = TdZero
    /\ interval = TdZero
    /\ checkpoints = <<>>
    /\ kinds = <<>>
    /\ events = <<>>
    /\ shown = <<>>
    /\ result = None

\* timer(...) is entered with the arguments a
Enter(a) ==
    /\ pc' = "entry"
    /\ args' = a
    /\ update_interval' = 0
    /\ suspend_margin' = 0
    /\ likely_suspended_timedelta' = TdZero
    /\ elapsed' = TdZero
    /\ start' = TdZero
    /\ end' = TdZero
    /\ interval' = TdZero
    /\ checkpoints' = <<>>
    /\ kinds' = <<>>
    /\ events' = <<>>
    /\ shown' = <<>>
    /\ result' = None

\* lines 134-135
ResolvedInterval(a) ==
    IF a.update_interval = None THEN DEFAULT_UPDATE_INTERVAL
    ELSE Get(a.update_interval)

\* a margin that falls back on the default interval, not on the one in use
ResolvedMarginFromDefault(a) ==
    IF a.suspend_margin = None THEN DEFAULT_UPDATE_INTERVAL
    ELSE Get(a.suspend_margin)

\* lines 136-137
ResolvedMargin(a) ==
    IF a.suspend_margin = None THEN ResolvedInterval(a)
    ELSE Get(a.suspend_margin)

\* lines 134-154: the defaults, the assertion, the tracker state
Setup ==
    /\ pc = "entry"
    /\ LET u == ResolvedInterval(args)
           m == ResolvedMargin(args)
       IN  /\ update_interval' = u
           /\ suspend_margin' = m
           /\ IF m >= 0
              THEN /\ \E now \in Now :
                        /\ start' = now
                        /\ checkpoints' = <<now>>
                   /\ likely_suspended_timedelta' = Timedelta(0, 0, u + m)
                   /\ elapsed' = IF args.initial_time = None THEN TdZero
                                 ELSE Get(args.initial_time)
                   /\ pc' = "pre_try"
              ELSE /\ pc' = "assert_failed"
                   /\ UNCHANGED <<start, checkpoints,
                                  likely_suspended_timedelta, elapsed>>
    /\ UNCHANGED <<args, end, interval, kinds, events, shown, result>>
    /\ UNCHANGED parseVars

\* lines 155-159: the blank line, then the try block is entered
EnterTry ==
    /\ pc = "pre_try"
    /\ pc' = "sleep"
    /\ UNCHANGED <<args, update_interval, suspend_margin,
                   likely_suspended_timedelta, elapsed, start, end, interval,
                   checkpoints, kinds, events, shown, result>>
    /\ UNCHANGED parseVars

\* line 161: sleep(update_interval)
Sleep ==
    /\ pc = "sleep"
    /\ Len(kinds) < MaxTicks
    /\ pc' = "read"
    /\ events' = Append(events, "sleep")
    /\ UNCHANGED <<args, update_interval, suspend_margin,
                   likely_suspended_timedelta, elapsed, start, end, interval,
                   checkpoints, kinds, shown, result>>
    /\ UNCHANGED parseVars

\* lines 162-163: end = now(); interval = end - start
ReadClock ==
    /\ pc = "read"
    /\ \E now \in Now :
          /\ end' = now
          /\ interval' = TdSub(now, start)
    /\ pc' = "checkpoint"
    /\ UNCHANGED <<args, update_interval, suspend_margin,
                   likely_suspended_timedelta, elapsed, start,
                   checkpoints, kinds, events, shown, result>>
    /\ UNCHANGED parseVars

\* line 164: start = end
Checkpoint ==
    /\ pc = "checkpoint"
    /\ start' = end
    /\ checkpoints' = Append(checkpoints, end)
    /\ pc' = "classify"
    /\ UNCHANGED <<args, update_interval, suspend_margin,
                   likely_suspended_timedelta, elapsed, end, interval,
                   kinds, events, shown, result>>
    /\ UNCHANGED parseVars

\* a comparison that also takes the threshold itself for a gap
LikelySuspendedOrEqual(iv, threshold) == TdGt(iv, threshold) \/ iv = threshold

\* line 168: interval > likely_suspended_timedelta
LikelySuspended(iv, threshold) == TdGt(iv, threshold)

\* lines 168-172: a suspend gap is not counted, any other interval is
\* (the blank line printed at a gap is no display of the time)
Classify ==
    /\ pc = "classify"
    /\ IF LikelySuspended(interval, likely_suspended_timedelta)
       THEN /\ kinds' = Append(kinds, "gap")
            /\ UNCHANGED elapsed
       ELSE /\ kinds' = Append(kinds, "normal")
            /\ elapsed' = TdAdd(elapsed, interval)
    /\ events' = Append(events, "tick")
    /\ pc' = "msg"
    /\ UNCHANGED <<args, update_interval, suspend_margin,
                   likely_suspended_timedelta, start, end, interval,
                   checkpoints, shown, result>>
    /\ UNCHANGED parseVars

\* a msg() that prints whatever skip_printing says
MsgPrintsAlways(skip_printing) == TRUE

\* lines 143-144: msg() returns at once when skip_printing is set
MsgPrints(skip_printing) == ~skip_printing

\* lines 145-150: what msg() prints: the fields of elapsed
MsgShown(skip_printing, sofar, td) ==
    IF MsgPrints(skip_printing) THEN Append(sofar, from_timedelta(td))
    ELSE sofar

MsgEvents(skip_printing, sofar, what) ==
    IF MsgPrints(skip_printing) THEN Append(sofar, what) ELSE sofar

\* line 173: msg(), with skip_printing = final_only
Msg ==
    /\ pc = "msg"
    /\ shown' = MsgShown(args.final_only, shown, elapsed)
    /\ events' = MsgEvents(args.final_only, events, "display")
    /\ pc' = "sleep"
    /\ UNCHANGED <<args, update_interval, suspend_margin,
                   likely_suspended_timedelta, elapsed, start, end, interval,
                   checkpoints, kinds, result>>
    /\ UNCHANGED parseVars

\* positions inside the try block (lines 160-173)
InTry == {"sleep", "read", "checkpoint", "classify", "msg"}
\* positions of timer() outside the try block: before the tracker state is
\* set (entry), after it (pre_try), and in the handler (except, return)
OutsideTry == {"entry", "pre_try", "except", "return"}

\* a KeyboardInterrupt raised inside the try block: line 174 catches it
InterruptCaught ==
    /\ pc \in InTry
    /\ pc' = "except"
    /\ events' = Append(events, "interrupt")
    /\ UNCHANGED <<args, update_interval, suspend_margin,
                   likely_suspended_timedelta, elapsed, start, end, interval,
                   checkpoints, kinds, shown, result>>
    /\ UNCHANGED parseVars

\* a KeyboardInterrupt raised in lines 134-158 or in the handler itself
\* (lines 175-180): no try block covers these, timer() raises; raised_early
\* when no tracker state had been set yet
InterruptUncaught ==
    /\ pc \in OutsideTry
    /\ pc' = IF pc = "entry" THEN "raised_early" ELSE "raised"
    /\ events' = Append(events, "interrupt")
    /\ UNCHANGED <<args, update_interval, suspend_margin,
                   likely_suspended_timedelta, elapsed, start, end, interval,
                   checkpoints, kinds, shown, result>>
    /\ UNCHANGED parseVars

\* lines 175-177: msg(skip_printing=False), the final display
Except ==
    /\ pc = "except"
    /\ shown' = MsgShown(FALSE, shown, elapsed)
    /\ events' = MsgEvents(FALSE, events, "final")
    /\ pc' = "return"
    /\ UNCHANGED <<args, update_interval, suspend_margin,
                   likely_suspended_timedelta, elapsed, start, end, interval,
                   checkpoints, kinds, result>>
    /\ UNCHANGED parseVars

\* lines 178-180: return elapsed
Return ==
    /\ pc = "return"
    /\ result' = Some(elapsed)
    /\ pc' = "returned"
    /\ UNCHANGED <<args, update_interval, suspend_margin,
                   likely_suspended_timedelta, elapsed, start, end, interval,
                   checkpoints, kinds, events, shown>>
    /\ UNCHANGED parseVars

\* --------------------------------------------------------------- texts

RECURSIVE IndexFrom(_, _, _)
\* the first position >= i at which sep occurs in t, 0 when there is none
IndexFrom(t, sep, i) ==
    IF i + Len(sep) - 1 > Len(t) THEN 0
    ELSE IF SubSeq(t, i, i + Len(sep) - 1) = sep THEN i
    ELSE IndexFrom(t, sep, i + 1)

\* sep in t
Contains(t, sep) == IndexFrom(t, sep, 1) > 0

\* t.partition(sep), for a sep that occurs in t: what precedes and what
\* follows the first occurrence
PartitionBefore(t, sep) == SubSeq(t, 1, IndexFrom(t, sep, 1) - 1)
PartitionAfter(t, sep) == SubSeq(t, IndexFrom(t, sep, 1) + Len(sep), Len(t))

\* t.count(c)
Count(t, c) == Cardinality({i \in DOMAIN t : t[i] = c})

RECURSIVE Split(_, _)
\* t.split(c)
Split(t, c) ==
    IF ~Contains(t, <<c>>) THEN <<t>>
    ELSE <<PartitionBefore(t, <<c>>)>> \o Split(PartitionAfter(t, <<c>>), c)

DigitChars == <<"0", "1", "2", "3", "4", "5", "6", "7", "8", "9">>
IsDigit(c) == \E d \in DOMAIN DigitChars : DigitChars[d] = c
DigitValue(c) == (CHOOSE d \in DOMAIN DigitChars : DigitChars[d] = c) - 1

RECURSIVE LStrip(_)
LStrip(t) == IF t # <<>> /\ Head(t) = " " THEN LStrip(Tail(t)) ELSE t
RECURSIVE RStrip(_)
RStrip(t) ==
    IF t # <<>> /\ t[Len(t)] = " " THEN RStrip(SubSeq(t, 1, Len(t) - 1))
    ELSE t

RECURSIVE DigitsValue(_)
DigitsValue(t) ==
    IF t = <<>> THEN 0
    ELSE 10 * DigitsValue(SubSeq(t, 1, Len(t) - 1)) + DigitValue(t[Len(t)])

\* int(t): surrounding blanks are dropped, what is left must be one or more
\* decimal digits; None stands for the ValueError int() raises
IntOf(t) ==
    LET core == RStrip(LStrip(t))
    IN  IF core # <<>> /\ \A i \in DOMAIN core : IsDigit(core[i])
        THEN Some(DigitsValue(core))
        ELSE None

\* ------------------------------------------------- TimeInfo.from_timestr

\* line 70: the characters of "01234567890:,. days"
PermittedChars ==
    {"0", "1", "2", "3", "4", "5", "6", "7", "8", "9",
     ":", ",", ".", " ", "d", "a", "y", "s"}

\* a check that lets every character through
CharsPermittedUnchecked(t) == TRUE

\* lines 69-70: every character passes the assertion
CharsPermitted(t) == \A i \in DOMAIN t : t[i] \in PermittedChars

\* line 74
days_sep == <<" ", "d", "a", "y", "s", ",", " ">>

\* lines 75-78: the text of the days field
DaysText(t) ==
    IF Contains(t, days_sep) THEN PartitionBefore(t, days_sep) ELSE <<"0">>

\* lines 75-76: what is left of timestr once the days are taken off
TimeText(t) ==
    IF Contains(t, days_sep) THEN PartitionAfter(t, days_sep) ELSE t

\* lines 80-92: more than two colons raise the ValueError
ColonsAccepted(colon_count) == colon_count <= 2

\* lines 81-87: the texts of <<hours, minutes, seconds>>
ClockTexts(rest) ==
    LET colon_count == Count(rest, ":")
        parts == Split(rest, ":")
    IN  IF colon_count = 0 THEN <<<<"0">>, <<"0">>, rest>>
        ELSE IF colon_count = 1 THEN <<<<"0">>, parts[1], parts[2]>>
        ELSE <<parts[1], parts[2], parts[3]>>

RECURSIVE ZeroPadRight(_, _)
ZeroPadRight(t, w) == IF Len(t) >= w THEN t ELSE ZeroPadRight(t \o <<"0">>, w)

\* a split that reads the digits after the dot as a decimal fraction
FractionTextsScaled(seconds) ==
    IF Contains(seconds, <<".">>)
    THEN <<PartitionBefore(seconds, <<".">>),
           ZeroPadRight(PartitionAfter(seconds, <<".">>), 6)>>
    ELSE <<seconds, <<"0">>>>

\* lines 94-97: the texts of <<seconds, microseconds>>
FractionTexts(seconds) ==
    IF Contains(seconds, <<".">>)
    THEN <<PartitionBefore(seconds, <<".">>), PartitionAfter(seconds, <<".">>)>>
    ELSE <<seconds, <<"0">>>>

from_timestr(t) ==
    IF ~CharsPermitted(t)
    THEN [ok |-> FALSE, err |-> "AssertionError"]
    ELSE IF ~ColonsAccepted(Count(TimeText(t), ":"))
    THEN [ok |-> FALSE, err |-> "ValueError: Invalid number of ':'"]
    ELSE LET hms == ClockTexts(TimeText(t))
             frac == FractionTexts(hms[3])
             days == IntOf(DaysText(t))
             hours == IntOf(hms[1])
             minutes == IntOf(hms[2])
             seconds == IntOf(frac[1])
             microseconds == IntOf(frac[2])
         IN  IF None \in {days, hours, minutes, seconds, microseconds}
             THEN [ok |-> FALSE, err |-> "ValueError: invalid literal for int()"]
             ELSE [ok |-> TRUE,
                   info |-> [days |-> Get(days), hours |-> Get(hours),
                             minutes |-> Get(minutes), seconds |-> Get(seconds),
                             microseconds |-> Get(microseconds)]]

\* lines 108-110: timedelta(**timeinfo._asdict())
timedelta_from_timeinfo(ti) ==
    Timedelta(ti.days, ti.hours * 3600 + ti.minutes * 60 + ti.seconds,
              ti.microseconds)

\* ------------------------------------------------------- the input texts

RECURSIVE Digits(_)
\* "%d" of a natural number
Digits(n) ==
    IF n < 10 THEN <<DigitChars[n + 1]>>
    ELSE Digits(n \div 10) \o <<DigitChars[(n % 10) + 1]>>

RECURSIVE ZeroPad(_, _)
\* "%0wd": zeros to the left up to the width w
ZeroPad(t, w) == IF Len(t) >= w THEN t ELSE ZeroPad(<<"0">> \o t, w)

\* str(datetime.timedelta), the serializer the docstrings of TimeInfo name:
\* "H:MM:SS", after "D day, " or "D days, " when days is not zero, before
\* ".UUUUUU" when microseconds is not zero
TimedeltaStr(td) ==
    LET ti == from_timedelta(td)
        hms == Digits(ti.hours) \o <<":">> \o ZeroPad(Digits(ti.minutes), 2)
                 \o <<":">> \o ZeroPad(Digits(ti.seconds), 2)
        plural == IF td.days # 1 THEN <<"s">> ELSE <<>>
        d == IF td.days # 0
             THEN Digits(td.days) \o <<" ", "d", "a", "y">> \o plural
                    \o <<",", " ">>
             ELSE <<>>
        us == IF td.microseconds # 0
              THEN <<".">> \o ZeroPad(Digits(td.microseconds), 6)
              ELSE <<>>
    IN  d \o hms \o us

\* the durations whose str() is tried as a text
Durations ==
    {Timedelta(d, s, us) : d \in {0, 1, 2}, s \in {0, 59, 3661, 86399},
                           us \in {0, 5, 500000}}

\* texts written to the grammar "[D days, ][[H:]M:]S[.U]": which fields are
\* present, their values, and the width they are zero-padded to
GrammarFields ==
    [days : {None, Some(0), Some(12)},
     colons : 0..2,
     hours : {0, 23},
     minutes : {0, 30},
     seconds : {0, 1, 10},
     microseconds : {None, Some(0), Some(5), Some(500000)},
     width : {1, 2}]

GrammarText(f) ==
    LET d == IF f.days = None THEN <<>>
             ELSE Digits(Get(f.days)) \o days_sep
        h == IF f.colons = 2
             THEN ZeroPad(Digits(f.hours), f.width) \o <<":">> ELSE <<>>
        m == IF f.colons >= 1
             THEN ZeroPad(Digits(f.minutes), f.width) \o <<":">> ELSE <<>>
        s == ZeroPad(Digits(f.seconds), f.width)
        u == IF f.microseconds = None THEN <<>>
             ELSE <<".">> \o Digits(Get(f.microseconds))
    IN  d \o h \o m \o s \o u

\* free-form texts: a prefix, then up to MaxLen characters
BodyChars == {"0", "1", "5", ":", ".", " ", "x"}
Prefixes == {<<>>, <<"2">> \o days_sep, <<"1", " ", "d", "a", "y", ",", " ">>}
Bodies == UNION {[1..n -> BodyChars] : n \in 0..MaxLen}

Origins ==
    {[kind |-> "raw", prefix |-> p, body |-> b] : p \in Prefixes, b \in Bodies}
    \cup {[kind |-> "timedelta", td |-> td] : td \in Durations}
    \cup {[kind |-> "grammar", f |-> f] : f \in GrammarFields}

TextOf(o) ==
    IF o.kind = "raw" THEN o.prefix \o o.body
    ELSE IF o.kind = "timedelta" THEN TimedeltaStr(o.td)
    ELSE GrammarText(o.f)

\* --------------------------------------------------------------------- main

\* main() before the command line is read
MainIdle ==
    /\ origin = [kind |-> "none"]
    /\ timestr = <<>>
    /\ mainpc = "idle"
    /\ parsed = [ok |-> FALSE, err |-> "none"]

\* lines 189-196, 236: parse_args() hands the --initial-time text to
\* timedelta_from_timestr; argparse turns a ValueError into a usage error,
\* an AssertionError leaves main() as it is
ParseArgs ==
    /\ mainpc = "argv"
    /\ parsed' = from_timestr(timestr)
    /\ mainpc' = IF parsed'.ok THEN "parsed"
                 ELSE IF parsed'.err = "AssertionError" THEN "crashed"
                 ELSE "usage_error"
    /\ UNCHANGED <<origin, timestr>>
    /\ UNCHANGED timerVars

\* line 237: timer(**vars(args)), the other flags as given on the command line
CallTimer ==
    /\ mainpc = "parsed"
    /\ mainpc' = "in_timer"
    /\ \E m \in SuspendMargins, f \in BOOLEAN :
          Enter([initial_time |-> Some(timedelta_from_timeinfo(parsed.info)),
                 update_interval |-> Some(DEFAULT_UPDATE_INTERVAL),
                 suspend_margin |-> m,
                 final_only |-> f])
    /\ UNCHANGED <<origin, timestr, parsed>>

\* main() with any of the input texts as --initial-time
ParseInit ==
    /\ NotCalled
    /\ mainpc = "argv"
    /\ parsed = [ok |-> FALSE, err |-> "none"]
    /\ \E o \in Origins :
          /\ origin = o
          /\ timestr = TextOf(o)

ParseNext ==
    \/ ParseArgs
    \/ CallTimer

ParseSpec == ParseInit /\ [][ParseNext]_vars

\* timer() called directly with any of the argument combinations
Init ==
    /\ MainIdle
    /\ \E a \in TimerArgs :
          /\ pc = "entry"
          /\ args = a
    /\ update_interval = 0
    /\ suspend_margin = 0
    /\ likely_suspended_timedelta = TdZero
    /\ elapsed = TdZero
    /\ start = TdZero
    /\ end = TdZero
    /\ interval = TdZero
    /\ checkpoints = <<>>
    /\ kinds = <<>>
    /\ events = <<>>
    /\ shown = <<>>
    /\ result = None

Next ==
    \/ Setup
    \/ EnterTry
    \/ Sleep
    \/ ReadClock
    \/ Checkpoint
    \/ Classify
    \/ Msg
    \/ InterruptCaught
    \/ InterruptUncaught
    \/ Except
    \/ Return

Spec == Init /\ [][Next]_vars

\* ----------------------------------------------------- measuring the runs

\* a short timedelta (a tick's interval, a gain of elapsed) in microseconds
Micros(td) == (td.days * 86400 + td.seconds) * 1000000 + td.microseconds

\* the interval of the i-th tick: from one checkpoint to the next
IntervalMicros(i) == Micros(TdSub(checkpoints[i + 1], checkpoints[i]))

\* timer() is past line 154: its tracker state exists
TrackerLive ==
    pc \notin {"not_called", "entry", "assert_failed", "raised_early"}

InitialElapsed ==
    IF args.initial_time = None THEN [days |-> 0, seconds |-> 0,
                                       microseconds |-> 0]
    ELSE Get(args.initial_time)

RECURSIVE SumNormal(_, _)
\* the intervals of the first n ticks that do not exceed the threshold, summed
SumNormal(n, threshold) ==
    IF n = 0 THEN 0
    ELSE SumNormal(n - 1, threshold)
           + (IF IntervalMicros(n) > threshold THEN 0 ELSE IntervalMicros(n))

ElapsedGain == Micros(TdSub(elapsed, InitialElapsed))

CountOf(seq, x) == Cardinality({i \in DOMAIN seq : seq[i] = x})

\* the events up to the first interrupt
BeforeInterrupt ==
    IF \E i \in DOMAIN events : events[i] = "interrupt"
    THEN SubSeq(events, 1,
                (CHOOSE i \in DOMAIN events :
                    /\ events[i] = "interrupt"
                    /\ \A j \in 1..(i - 1) : events[j] # "interrupt") - 1)
    ELSE events

\* ------------------------------------------------------------------ claims

\* C1: a tick is a suspend gap exactly when its interval, measured from the
\* previous checkpoint, is strictly greater than update_interval +
\* suspend_margin; a gap leaves elapsed alone and any other tick (the
\* threshold itself included) adds its interval, so elapsed is initial_time
\* plus the intervals of the normal ticks.
C1_TickAccounting ==
    TrackerLive =>
        /\ start = checkpoints[Len(checkpoints)]
        /\ \A i \in DOMAIN kinds :
              (kinds[i] = "gap")
                  <=> (IntervalMicros(i) > update_interval + suspend_margin)
        /\ ElapsedGain = SumNormal(Len(kinds), update_interval + suspend_margin)

\* C1 witness: two ticks done, one exactly at the threshold and counted, one
\* above it and left out
C1_Witness ==
    /\ pc = "sleep"
    /\ Len(kinds) = 2
    /\ \E i, j \in DOMAIN kinds :
          /\ IntervalMicros(i) = update_interval + suspend_margin
          /\ kinds[i] = "normal"
          /\ kinds[j] = "gap"
    /\ ElapsedGain = update_interval + suspend_margin
    /\ ElapsedGain > 0

\* C2: at an interrupt the tracker is never partially updated: every interval
\* the checkpoint has been moved over is accounted for in elapsed (added when
\* normal), and the Duration returned is that elapsed.
C2_NoTickDroppedAtInterrupt ==
    pc \in {"except", "return", "returned"} =>
        /\ ElapsedGain = SumNormal(Len(checkpoints) - 1,
                                   update_interval + suspend_margin)
        /\ pc = "returned" => result = Some(elapsed)

\* C3: an interrupt delivered at any point between the initialisation of the
\* tracker state and the return of timer() never leaves timer() as an error.
C3_InterruptNeverPropagates == pc # "raised"

\* C4: before the interrupt the events are sleep, tick, display in turn
\* (sleep, tick when final_only: nothing is displayed); after the interrupt
\* there is exactly one final display of elapsed before timer() returns, so
\* a final_only run displays once in all.
C4_DisplayPolicy ==
    LET pattern == IF args.final_only THEN <<"sleep", "tick">>
                   ELSE <<"sleep", "tick", "display">>
        pre == BeforeInterrupt
    IN  /\ \A i \in DOMAIN pre : pre[i] = pattern[((i - 1) % Len(pattern)) + 1]
        /\ args.final_only => CountOf(events, "display") = 0
        /\ Len(shown) = CountOf(events, "display") + CountOf(events, "final")
        /\ CountOf(events, "final") <= 1
        /\ pc = "returned" =>
              /\ CountOf(events, "final") = 1
              /\ events[Len(events)] = "final"
              /\ shown[Len(shown)] = from_timedelta(Get(result))
              /\ args.final_only => Len(shown) = 1
              /\ ~args.final_only =>
                    CountOf(events, "display")
                        \in {Len(kinds), Len(kinds) - 1}
        /\ (pc = "sleep" /\ ~args.final_only) =>
              CountOf(events, "display") = Len(kinds)

\* C4 witness: a final_only run of two ticks has returned after one display
C4_Witness ==
    /\ pc = "returned"
    /\ args.final_only
    /\ Len(kinds) = 2
    /\ Len(shown) = 1

\* C5: with suspend_margin not given, the margin is the update interval
\* (the default one or the caller's) and the threshold between a normal tick
\* and a suspend gap is twice the update interval.
C5_DefaultThreshold ==
    (TrackerLive /\ args.suspend_margin = None) =>
        /\ update_interval =
              (IF args.update_interval = None THEN DEFAULT_UPDATE_INTERVAL
               ELSE Get(args.update_interval))
        /\ suspend_margin = update_interval
        /\ likely_suspended_timedelta =
              [days |-> 0, seconds |-> 0, microseconds |-> 2 * update_interval]
        /\ \A i \in DOMAIN kinds :
              (kinds[i] = "gap") <=> (IntervalMicros(i) > 2 * update_interval)

\* C5 witness: a caller-supplied update interval, no margin, one tick of
\* exactly twice the interval counted and one longer tick left out
C5_Witness ==
    /\ TrackerLive
    /\ args.suspend_margin = None
    /\ args.update_interval # None
    /\ \E i, j \in DOMAIN kinds :
          /\ IntervalMicros(i) = 2 * update_interval
          /\ kinds[i] = "normal"
          /\ kinds[j] = "gap"

\* the texts the claims speak of
ClaimPermitted ==
    {"0", "1", "2", "3", "4", "5", "6", "7", "8", "9"}
        \cup {":", ".", ",", " "} \cup {"d", "a", "y", "s"}
HasForeignChar(t) == \E i \in DOMAIN t : t[i] \notin ClaimPermitted
TooManyColons(t) ==
    LET sep == <<" ", "d", "a", "y", "s", ",", " ">>
        seg == IF Contains(t, sep) THEN PartitionAfter(t, sep) ELSE t
    IN  CountOf(seg, ":") > 2
ParseDone == mainpc # "argv"

\* C6: a text with a character outside the permitted set, or with more than
\* two colons in its time segment, is refused with an error that tells the
\* two apart, and timer() is not entered: no tracker state exists.
C6_Rejects ==
    ParseDone =>
        /\ HasForeignChar(timestr) =>
              /\ ~parsed.ok
              /\ parsed.err = "AssertionError"
        /\ (~HasForeignChar(timestr) /\ TooManyColons(timestr)) =>
              /\ ~parsed.ok
              /\ parsed.err = "ValueError: Invalid number of ':'"
        /\ ~parsed.ok =>
              /\ mainpc \in {"crashed", "usage_error"}
              /\ pc = "not_called"
              /\ ~TrackerLive

\* C6 witness: a text of permitted characters with three colons was refused
C6_Witness ==
    /\ mainpc = "usage_error"
    /\ ~HasForeignChar(timestr)
    /\ TooManyColons(timestr)
    /\ parsed.err = "ValueError: Invalid number of ':'"

\* C7: parsing str(d) succeeds and gives the fields of d, for every
\* non-negative duration d (one day exactly included).
C7_RoundTrip ==
    (ParseDone /\ origin.kind = "timedelta") =>
        /\ parsed.ok
        /\ parsed.info = from_timedelta(origin.td)

\* C8: elapsed is never negative, whatever the clock reads, and the fields
\* displayed for it are within their moduli.
C8_ElapsedNonNegative ==
    TrackerLive =>
        /\ elapsed.days >= 0
        /\ ElapsedGain >= 0
        /\ \A i \in DOMAIN shown :
              /\ shown[i].hours \in 0..23
              /\ shown[i].minutes \in 0..59
              /\ shown[i].seconds \in 0..59
              /\ shown[i].days >= 0

\* C9: the value of --suspend-margin is the duration between two prints at
\* which a suspension is assumed: a tick longer than the given margin is a
\* gap; without the flag that duration is twice the update interval.
C9_MarginIsTheDuration ==
    TrackerLive =>
        /\ args.suspend_margin # None =>
              \A i \in DOMAIN kinds :
                  (IntervalMicros(i) > Get(args.suspend_margin))
                      => kinds[i] = "gap"
        /\ args.suspend_margin = None =>
              \A i \in DOMAIN kinds :
                  (IntervalMicros(i) > 2 * update_interval)
                      => kinds[i] = "gap"

OrZero(o) == IF o = None THEN 0 ELSE Get(o)

\* C10: days come from the "<int> days, " prefix, (hours, minutes, seconds)
\* from the time segment by its number of colons, the sub-second field from
\* the integer after the dot taken as it stands; what is absent is 0.
C10_FieldMapping ==
    /\ (ParseDone /\ origin.kind = "grammar") =>
          /\ parsed.ok
          /\ parsed.info =
                [days |-> OrZero(origin.f.days),
                 hours |-> IF origin.f.colons = 2 THEN origin.f.hours ELSE 0,
                 minutes |-> IF origin.f.colons >= 1 THEN origin.f.minutes
                             ELSE 0,
                 seconds |-> origin.f.seconds,
                 microseconds |-> OrZero(origin.f.microseconds)]
    /\ (ParseDone /\ parsed.ok) =>
          /\ ~Contains(timestr, <<" ", "d", "a", "y", "s", ",", " ">>)
                => parsed.info.days = 0
          /\ CountOf(timestr, ":") = 0
                => (parsed.info.hours = 0 /\ parsed.info.minutes = 0)
          /\ CountOf(timestr, ":") = 1 => parsed.info.hours = 0
          /\ CountOf(timestr, ".") = 0 => parsed.info.microseconds = 0
    /\ (ParseDone /\ timestr = <<"1", ".", "5">>) =>
          /\ parsed.ok
          /\ parsed.info.seconds = 1
          /\ parsed.info.microseconds = 5
    /\ mainpc = "in_timer" =>
          args.initial_time =
              Some([days |-> parsed.info.days,
                    seconds |-> parsed.info.hours * 3600
                                  + parsed.info.minutes * 60
                                  + parsed.info.seconds,
                    microseconds |-> parsed.info.microseconds])

\* C10 witness: "12 days, 23:30:1.5" was parsed, its sub-second field is 5
C10_Witness ==
    /\ ParseDone
    /\ origin.kind = "grammar"
    /\ origin.f.days = Some(12)
    /\ origin.f.colons = 2
    /\ origin.f.microseconds = Some(5)
    /\ timestr = <<"1", "2", " ", "d", "a", "y", "s", ",", " ",
                   "2", "3", ":", "3", "0", ":", "1", ".", "5">>
    /\ parsed.ok
    /\ parsed.info = [days |-> 12, hours |-> 23, minutes |-> 30,
                      seconds |-> 1, microseconds |-> 5]
====
